---- MODULE Spec2Model ----
(***************************************************************************)
(* State-machine model of the trading controller loop of main_bot.py      *)
(* (main_async): session gate, daily reset, drawdown gate, fan-out fetch,  *)
(* per-instrument evaluation and order placement, trailing-stop pass,      *)
(* aggregate unrealized-loss kill-switch, loop-boundary fault handler.     *)
(*                                                                         *)
(* Units.  Prices, ATR and price distances are integers in points          *)
(* (1 point = 0.00001); one pip (0.0001) is PIP points.  Order quantities  *)
(* are in millions of units.  Account balances are in account currency.    *)
(* compute_unrealized_pnl is then an integer in thousandths of a currency  *)
(* unit: points * 1e-5 * (units * 1e6) * 0.0001 = points * units * 1e-3.   *)
(* Percentages with one decimal are kept in tenths of a percent.           *)
(* Floating-point rounding is not modelled.                                *)
(***************************************************************************)
EXTENDS Integers, Sequences, FiniteSets, TLC

(* ------------------------------ bounds -------------------------------- *)
\* days of the run are 0..MaxDay; day 0 is a Thursday
MaxDay == 2

(* ------------------------- program constants -------------------------- *)
MAX_TRADES_PER_DAY == 5
\* 7.5 percent, in tenths of a percent
DAILY_DRAWDOWN_LIMIT_PCT == 75
TRAILING_STOP_PIPS == 17
MAX_CONSECUTIVE_LOSSES == 3
\* the factor 0.0001 of the source, in points
PIP == 10
\* first and last UTC hour of the trading window
SessionOpenHour == 6
SessionCloseHour == 18
\* weekday() of the first non-trading day (Saturday)
FirstWeekendDay == 5

\* the first two entries of config.INSTRUMENTS
INSTRUMENTS == <<"EUR_USD", "GBP_USD">>
Instruments == 1..Len(INSTRUMENTS)

(* --------------------------- environment ------------------------------ *)
\* latest close prices the broker can report, per instrument of INSTRUMENTS:
\* EUR_USD moves over 1.10000, 1.10180, 1.10480 and GBP_USD over 1.25000, 1.25200
Prices == <<{110000, 110180, 110480}, {125000, 125200}>>
\* the broker's latest closes of all instruments at one moment
Markets == {m \in [Instruments -> UNION {Prices[i] : i \in Instruments}] :
                \A i \in Instruments : m[i] \in Prices[i]}
\* values get_account_balance can return
Balances == {0, 10000}
\* values of the ATR column on the last bar
Atrs == {0, 130}
\* UTC hours at which an iteration can start
Hours == {5, 6, 18, 19}
\* positive quantities the position sizer can return
Sizes == {2500}
Signals == {"BUY", "SELL", "FLAT"}
Trends == {"up", "down", "flat"}

\* Python's None and a present value
None == <<>>
Some(x) == <<x>>
Val(o) == o[1]

Abs(x) == IF x < 0 THEN 0 - x ELSE x

\* datetime.weekday() of day d (Monday = 0); day 0 is a Thursday
Weekday(d) == (d + 3) % 7

VARIABLES
    pc,                   \* position in the loop body: "top", "balance", "fetch", "eval",
                          \* "decided", "for_instrument", "trail", "for_trade", "kill",
                          \* "sleep"; "halt" is the ended process
    current_day,          \* UTC date of the last clock read (day index)
    last_date,            \* None or Some(day)
    daily_trade_count,
    consecutive_losses,
    start_of_day_equity,  \* None or Some(balance)
    equity_date,          \* None or Some(day): the date of the read of start_of_day_equity
    open_trades,          \* sequence of trade records
    instrument_data,      \* fan-out result per instrument: "ok" or "empty"
    latest_prices,        \* per instrument: None or Some(price)
    idx,                  \* instrument the evaluation loop is at
    confirmed_signal,     \* the decision for instrument idx
    trail_q,              \* order ids of open_trades.copy() still to visit
    managed,              \* position-management passes completed in this iteration
    activated,            \* order ids of open trades whose trailing stop was evaluated active
    retry,                \* order ids of open trades that failed to close under the kill-switch
    ev,                   \* what the last step did (observation record)
    call                  \* a direct call of one function: its name, arguments and result

vars == <<pc, current_day, last_date, daily_trade_count, consecutive_losses,
          start_of_day_equity, equity_date, open_trades, instrument_data, latest_prices,
          idx, confirmed_signal, trail_q, managed, activated, retry, ev, call>>

\* variables of the day state and of the iteration, for UNCHANGED
day_state == <<last_date, daily_trade_count, consecutive_losses, start_of_day_equity,
               equity_date>>
locals == <<instrument_data, latest_prices, idx, confirmed_signal, trail_q>>

\* the observation record with every field at its default
NoEv ==
    [type |-> "init", hour |-> 0, reset |-> FALSE, balance |-> 0, res |-> <<>>,
     inst |-> 0, signal |-> "FLAT", t15 |-> "flat", t5 |-> "flat",
     confirmed |-> "FLAT", atr |-> 0, size |-> 0, stop |-> 0, target |-> 0,
     order |-> None,
     trade |-> None, price |-> None, was |-> FALSE, active |-> FALSE, req |-> FALSE, closed |-> FALSE,
     fired |-> FALSE, quote |-> <<>>, priced |-> {}, before |-> <<>>, failed |-> <<>>,
     alert |-> "", at |-> ""]

\* the values of the iteration-local variables outside an iteration
NoData == [i \in Instruments |-> "empty"]
NoPrices == [i \in Instruments |-> None]

Ids(trades) == {trades[k].order_id : k \in 1..Len(trades)}
TradeById(trades, id) == trades[CHOOSE k \in 1..Len(trades) : trades[k].order_id = id]

\* no direct call is in progress
NoCall == [fn |-> "", args |-> <<>>, result |-> None]

\* the state of main_async before the first iteration
LoopInit ==
    /\ pc = "top"
    /\ current_day = 0
    /\ last_date = None
    /\ daily_trade_count = 0
    /\ consecutive_losses = 0
    /\ start_of_day_equity = None
    /\ equity_date = None
    /\ open_trades = <<>>
    /\ instrument_data = NoData
    /\ latest_prices = NoPrices
    /\ idx = 1
    /\ confirmed_signal = "FLAT"
    /\ trail_q = <<>>
    /\ managed = {}
    /\ activated = {}
    /\ retry = {}
    /\ ev = NoEv

Init == LoopInit /\ call = NoCall

(* ------------------------ loop-boundary handler ----------------------- *)
\* a bug: the exception ends the loop
HandlerEndsLoop == "halt"

\* where control goes after the except block: logger.error, send_email_alert,
\* sleep(60), then the next iteration of while True
HandlerNext == "sleep"

\* the observation of an exception caught at the loop boundary
FaultEv(where) == [NoEv EXCEPT !.type = "fault", !.alert = "Trading Bot Error", !.at = where]

(* --------------------------- top of the loop -------------------------- *)
\* the clock read: time does not go back, and the run ends with day MaxDay
ClockDays == {d \in {current_day, current_day + 1} : d <= MaxDay}

\* a bug: the first and the last hour of the window are outside it
SessionClosedInclusive(d, h) ==
    \/ h <= SessionOpenHour
    \/ h >= SessionCloseHour
    \/ Weekday(d) >= FirstWeekendDay

\* current_hour < 6 or current_hour > 18, or now.weekday() >= 5
SessionClosed(d, h) ==
    \/ h < SessionOpenHour
    \/ h > SessionCloseHour
    \/ Weekday(d) >= FirstWeekendDay

\* current_day != last_date
ResetNeeded(d) == last_date # Some(d)

\* the session gate: sleep and continue, nothing else is touched
SessionGate ==
    /\ pc = "top"
    /\ \E d \in ClockDays, h \in Hours :
        /\ SessionClosed(d, h)
        /\ current_day' = d
        /\ ev' = [NoEv EXCEPT !.type = "session", !.hour = h]
    /\ pc' = "sleep"
    /\ UNCHANGED <<day_state, open_trades, locals, managed, activated, retry>>
    /\ UNCHANGED call

\* the session gate is passed; on a new date the daily-reset block runs: date,
\* counters, and the starting equity from a balance read
DayCheck ==
    /\ pc = "top"
    /\ \E d \in ClockDays, h \in Hours, balance \in Balances :
        /\ ~SessionClosed(d, h)
        /\ current_day' = d
        /\ IF ResetNeeded(d)
           THEN /\ last_date' = Some(d)
                /\ daily_trade_count' = 0
                /\ consecutive_losses' = 0
                /\ start_of_day_equity' = Some(balance)
                /\ equity_date' = Some(d)
           ELSE UNCHANGED day_state
        /\ ev' = [NoEv EXCEPT !.type = "day", !.hour = h, !.reset = ResetNeeded(d)]
    /\ pc' = "balance"
    /\ UNCHANGED <<open_trades, locals, managed, activated, retry>>
    /\ UNCHANGED call

\* get_account_balance raises inside the daily-reset block (line 81): the date and
\* the counters are already assigned, the starting equity is not
FaultResetBalance ==
    /\ pc = "top"
    /\ \E d \in ClockDays, h \in Hours :
        /\ ~SessionClosed(d, h)
        /\ ResetNeeded(d)
        /\ current_day' = d
        /\ last_date' = Some(d)
        /\ ev' = [FaultEv("reset_balance") EXCEPT !.hour = h, !.reset = TRUE]
    /\ daily_trade_count' = 0
    /\ consecutive_losses' = 0
    /\ pc' = HandlerNext
    /\ UNCHANGED <<start_of_day_equity, equity_date, open_trades, locals, managed, activated, retry>>
    /\ UNCHANGED call

\* start_of_day_equity after "if start_of_day_equity is None" with current_balance
StartEquity(current_balance) ==
    IF start_of_day_equity = None THEN Some(current_balance) ELSE start_of_day_equity

\* the date of the read that start_of_day_equity holds after line 86
EquityDate == IF start_of_day_equity = None THEN Some(current_day) ELSE equity_date

\* values of the balance read of line 84: once the starting equity is set, also
\* balances around the drawdown limit of a starting equity of 10000
DrawdownProbes == {9200, 9250, 9251}
CurrentBalances ==
    Balances \cup (IF start_of_day_equity = None THEN {} ELSE DrawdownProbes)

\* a bug: a drawdown of exactly the limit does not trip the gate
DrawdownTripsStrict(current_balance, start) ==
    IF start > 0
    THEN (current_balance - start) * 1000 < (0 - DAILY_DRAWDOWN_LIMIT_PCT) * start
    ELSE (current_balance - start) * 1000 > (0 - DAILY_DRAWDOWN_LIMIT_PCT) * start

\* dd_pct <= -DAILY_DRAWDOWN_LIMIT_PCT with
\* dd_pct = ((current_balance - start) / start) * 100, for start # 0
DrawdownTrips(current_balance, start) ==
    IF start > 0
    THEN (current_balance - start) * 1000 <= (0 - DAILY_DRAWDOWN_LIMIT_PCT) * start
    ELSE (current_balance - start) * 1000 >= (0 - DAILY_DRAWDOWN_LIMIT_PCT) * start

\* get_account_balance raises at line 84
FaultCurrentBalance ==
    /\ pc = "balance"
    /\ pc' = HandlerNext
    /\ ev' = FaultEv("current_balance")
    /\ UNCHANGED <<current_day, day_state, open_trades, locals, managed, activated, retry>>
    /\ UNCHANGED call

\* start_of_day_equity is 0: the division of line 87 raises ZeroDivisionError
FaultZeroEquity ==
    /\ pc = "balance"
    /\ \E current_balance \in CurrentBalances :
        /\ Val(StartEquity(current_balance)) = 0
        /\ start_of_day_equity' = StartEquity(current_balance)
        /\ equity_date' = EquityDate
        /\ ev' = [FaultEv("dd_pct") EXCEPT !.balance = current_balance]
    /\ pc' = HandlerNext
    /\ UNCHANGED <<current_day, last_date, daily_trade_count, consecutive_losses,
                   open_trades, locals, managed, activated, retry>>
    /\ UNCHANGED call

\* the drawdown gate trips: warning, alert, sleep(60), continue
DrawdownGate ==
    /\ pc = "balance"
    /\ \E current_balance \in CurrentBalances :
        /\ Val(StartEquity(current_balance)) # 0
        /\ DrawdownTrips(current_balance, Val(StartEquity(current_balance)))
        /\ start_of_day_equity' = StartEquity(current_balance)
        /\ equity_date' = EquityDate
        /\ ev' = [NoEv EXCEPT !.type = "drawdown", !.balance = current_balance,
                              !.alert = "Daily Drawdown Alert"]
    /\ pc' = "sleep"
    /\ UNCHANGED <<current_day, last_date, daily_trade_count, consecutive_losses,
                   open_trades, locals, managed, activated, retry>>
    /\ UNCHANGED call

\* the drawdown gate does not trip: on to the fan-out fetch
EquityCheck ==
    /\ pc = "balance"
    /\ \E current_balance \in CurrentBalances :
        /\ Val(StartEquity(current_balance)) # 0
        /\ ~DrawdownTrips(current_balance, Val(StartEquity(current_balance)))
        /\ start_of_day_equity' = StartEquity(current_balance)
        /\ equity_date' = EquityDate
        /\ ev' = [NoEv EXCEPT !.type = "equity", !.balance = current_balance]
    /\ pc' = "fetch"
    /\ UNCHANGED <<current_day, last_date, daily_trade_count, consecutive_losses,
                   open_trades, locals, managed, activated, retry>>
    /\ UNCHANGED call

\* outcomes of one fetch_ohlc_data call of the fan-out: bars, no (or too few) bars,
\* an exception (transport or authentication failure)
FetchOutcomes == {"ok", "empty", "raise"}

\* asyncio.gather without return_exceptions: the first exception of any task is
\* raised to the awaiter
GatherRaises(res) == \E i \in Instruments : res[i] = "raise"

\* fetch_all_instruments; on success the per-instrument loop starts
FetchAll ==
    /\ pc = "fetch"
    /\ \E res \in [Instruments -> FetchOutcomes] :
        IF GatherRaises(res)
        THEN /\ pc' = HandlerNext
             /\ ev' = [FaultEv("fetch_all") EXCEPT !.res = res]
             /\ UNCHANGED <<instrument_data, latest_prices, idx>>
        ELSE /\ pc' = "eval"
             /\ ev' = [NoEv EXCEPT !.type = "fetch", !.res = res]
             /\ instrument_data' = res
             /\ latest_prices' = NoPrices
             /\ idx' = 1
    /\ UNCHANGED <<current_day, day_state, open_trades, confirmed_signal, trail_q,
                   managed, activated, retry>>
    /\ UNCHANGED call

(* ---------------------- per-instrument evaluation --------------------- *)
\* a bug: one agreeing trend is enough
ConfirmSignalEitherTrend(signal, trend_M15, trend_M5) ==
    IF signal = "BUY" /\ (trend_M15 = "up" \/ trend_M5 = "up") THEN "BUY"
    ELSE IF signal = "SELL" /\ (trend_M15 = "down" \/ trend_M5 = "down") THEN "SELL"
    ELSE "FLAT"

\* Step 3 of the loop body: the base signal is kept only when both
\* higher-timeframe trends agree with it
ConfirmSignal(signal, trend_M15, trend_M5) ==
    IF signal = "BUY" /\ trend_M15 = "up" /\ trend_M5 = "up" THEN "BUY"
    ELSE IF signal = "SELL" /\ trend_M15 = "down" /\ trend_M5 = "down" THEN "SELL"
    ELSE "FLAT"

\* a bug: the caps are compared with > instead of >=
CapExceeded ==
    \/ daily_trade_count > MAX_TRADES_PER_DAY
    \/ consecutive_losses > MAX_CONSECUTIVE_LOSSES

\* daily_trade_count >= MAX_TRADES_PER_DAY or consecutive_losses >= MAX_CONSECUTIVE_LOSSES
CapReached ==
    \/ daily_trade_count >= MAX_TRADES_PER_DAY
    \/ consecutive_losses >= MAX_CONSECUTIVE_LOSSES

\* utils.calculate_dynamic_position_size: zero for equity <= 0, atr <= 0 or
\* price <= 0, otherwise a positive quantity q
calculate_dynamic_position_size(balance, atr, price, q) ==
    IF balance <= 0 \/ atr <= 0 \/ price <= 0 THEN 0 ELSE q

\* stop_loss_pips * 0.0001 with stop_loss_pips = atr_in_pips * 1.5
StopDistance(atr) == (atr * 15) \div 10
\* reward_factor = 2.0
TargetDistance(atr) == StopDistance(atr) * 2

stop_loss_price(side, price, atr) ==
    IF side = "BUY" THEN price - StopDistance(atr) ELSE price + StopDistance(atr)
\* a bug: the SELL target is not mirrored
take_profit_price_above(side, price, atr) == price + TargetDistance(atr)

take_profit_price(side, price, atr) ==
    IF side = "BUY" THEN price + TargetDistance(atr) ELSE price - TargetDistance(atr)

\* a bug: the stop price is stored as the trade's take-profit
NewTradeStopAsTarget(inst, side, price, size, order_id, atr) ==
    [instrument |-> inst, side |-> side, entry_price |-> price, units |-> size,
     order_id |-> order_id,
     max_price |-> IF side = "BUY" THEN Some(price) ELSE None,
     min_price |-> IF side = "SELL" THEN Some(price) ELSE None,
     take_profit_price |-> stop_loss_price(side, price, atr)]

\* the dict registered after place_order returned order_id
NewTrade(inst, side, price, size, order_id, atr) ==
    [instrument |-> inst, side |-> side, entry_price |-> price, units |-> size,
     order_id |-> order_id,
     max_price |-> IF side = "BUY" THEN Some(price) ELSE None,
     min_price |-> IF side = "SELL" THEN Some(price) ELSE None,
     take_profit_price |-> take_profit_price(side, price, atr)]

\* The broker's answer to place_order.  It accepts an order (returns an id) only
\* for a positive quantity and only while no trade is open on the instrument; the
\* id of the trade is then the instrument's index, unique among the open trades.
BrokerCanAccept(inst, size) ==
    /\ size > 0
    /\ \A k \in 1..Len(open_trades) : open_trades[k].instrument # inst

IdSeq(trades) == [k \in 1..Len(trades) |-> trades[k].order_id]

\* "for instrument, df in instrument_data.items()" after the body ran for instrument
\* idx: the next instrument, or, after the last one, open_trades.copy() and the
\* first trade of the trailing-stop pass (the kill-switch pass when there is none)
ForInstrument ==
    /\ pc = "for_instrument"
    /\ confirmed_signal' = "FLAT"
    /\ ev' = [NoEv EXCEPT !.type = "for"]
    /\ IF idx < Len(INSTRUMENTS)
       THEN /\ pc' = "eval"
            /\ idx' = idx + 1
            /\ UNCHANGED <<trail_q, managed>>
       ELSE /\ idx' = idx
            /\ trail_q' = IdSeq(open_trades)
            /\ pc' = IF open_trades = <<>> THEN "kill" ELSE "trail"
            /\ managed' = IF open_trades = <<>> THEN {"trail"} ELSE {}
    /\ UNCHANGED <<current_day, day_state, open_trades, instrument_data,
                   latest_prices, activated, retry>>
    /\ UNCHANGED call

\* the inputs of the decision of instrument inst: every combination of signal and
\* trends for the first instrument, one combination per decision for the others
DecisionInputs(inst) ==
    IF inst = 1 THEN Signals \X Trends \X Trends
    ELSE {<<"BUY", "up", "up">>, <<"SELL", "down", "down">>, <<"BUY", "up", "down">>}

\* df.empty or len(df) < 50: warning, continue
SkipInstrument ==
    /\ pc = "eval"
    /\ instrument_data[idx] = "empty"
    /\ ev' = [NoEv EXCEPT !.type = "skip", !.inst = idx]
    /\ pc' = "for_instrument"
    /\ UNCHANGED <<current_day, day_state, open_trades, locals, managed, activated, retry>>
    /\ UNCHANGED call

\* indicators computed, latest price recorded, adx < 25: continue
FlatMarket ==
    /\ pc = "eval"
    /\ instrument_data[idx] = "ok"
    /\ \E price \in Prices[idx] :
        latest_prices' = [latest_prices EXCEPT ![idx] = Some(price)]
    /\ ev' = [NoEv EXCEPT !.type = "flat_market", !.inst = idx]
    /\ pc' = "for_instrument"
    /\ UNCHANGED <<current_day, day_state, open_trades, instrument_data, idx,
                   confirmed_signal, trail_q, managed, activated, retry>>
    /\ UNCHANGED call

\* indicators computed, latest price recorded, adx >= 25: both trends are fetched,
\* the M1 signal is generated and confirmed
Decide ==
    /\ pc = "eval"
    /\ instrument_data[idx] = "ok"
    /\ \E price \in Prices[idx] :
        latest_prices' = [latest_prices EXCEPT ![idx] = Some(price)]
    /\ \E in \in DecisionInputs(idx) :
        LET signal == in[1]
            trend_M15 == in[2]
            trend_M5 == in[3]
        IN  /\ confirmed_signal' = ConfirmSignal(signal, trend_M15, trend_M5)
            /\ ev' = [NoEv EXCEPT !.type = "decide", !.inst = idx, !.signal = signal,
                                  !.t15 = trend_M15, !.t5 = trend_M5]
    /\ pc' = "decided"
    /\ UNCHANGED <<current_day, day_state, open_trades, instrument_data, idx, trail_q,
                   managed, activated, retry>>
    /\ UNCHANGED call

\* the signal is not confirmed, or it is confirmed and a daily cap is reached
NoOrder ==
    /\ pc = "decided"
    /\ confirmed_signal \notin {"BUY", "SELL"} \/ CapReached
    /\ ev' = [NoEv EXCEPT !.type = "no_order", !.inst = idx,
                          !.confirmed = confirmed_signal]
    /\ pc' = "for_instrument"
    /\ UNCHANGED <<current_day, day_state, open_trades, locals, managed, activated, retry>>
    /\ UNCHANGED call

\* the signal is confirmed and no cap is reached: balance read, sizing, stop and
\* target, place_order; the trade is registered when an order id comes back
PlaceOrder ==
    /\ pc = "decided"
    /\ confirmed_signal \in {"BUY", "SELL"}
    /\ ~CapReached
    /\ \E balance \in Balances, atr_value \in Atrs, q \in Sizes, accepted \in BOOLEAN :
        LET current_price == Val(latest_prices[idx])
            position_size ==
                calculate_dynamic_position_size(balance, atr_value, current_price, q)
            trades == IF accepted
                      THEN Append(open_trades,
                                  NewTrade(idx, confirmed_signal, current_price,
                                           position_size, idx, atr_value))
                      ELSE open_trades
        IN  /\ accepted => BrokerCanAccept(idx, position_size)
            /\ open_trades' = trades
            /\ daily_trade_count' = IF accepted THEN daily_trade_count + 1
                                    ELSE daily_trade_count
            /\ ev' = [NoEv EXCEPT
                        !.type = "order", !.inst = idx, !.confirmed = confirmed_signal,
                        !.atr = atr_value, !.size = position_size,
                        !.stop = stop_loss_price(confirmed_signal, current_price, atr_value),
                        !.target = take_profit_price(confirmed_signal, current_price,
                                                     atr_value),
                        !.order = IF accepted THEN Some(idx) ELSE None]
    /\ pc' = "for_instrument"
    /\ UNCHANGED <<current_day, last_date, consecutive_losses, start_of_day_equity,
                   equity_date,
                   locals, managed, activated, retry>>
    /\ UNCHANGED call

\* a call of the evaluation of an instrument with data raises: the indicator
\* pipeline or a trend fetch (at "eval"), the balance read, the sizer or
\* place_order (at "decided")
FaultEval ==
    /\ \/ pc = "eval" /\ instrument_data[idx] = "ok"
       \/ pc = "decided" /\ confirmed_signal \in {"BUY", "SELL"} /\ ~CapReached
    /\ pc' = HandlerNext
    /\ ev' = [FaultEv(pc) EXCEPT !.inst = idx]
    /\ UNCHANGED <<current_day, day_state, open_trades, locals, managed, activated, retry>>
    /\ UNCHANGED call

(* ------------------------- position management ------------------------ *)
\* activation fractions of the planned take-profit distance, in percent
BuyActivationPct == 35
SellActivationPct == 50

\* a bug: the PnL of a SELL trade is not mirrored
compute_unrealized_pnl_long(trade, current_price) ==
    (current_price - trade.entry_price) * trade.units

\* compute_unrealized_pnl(trade, current_price)
compute_unrealized_pnl(trade, current_price) ==
    IF trade.side = "BUY"
    THEN (current_price - trade.entry_price) * trade.units
    ELSE (trade.entry_price - current_price) * trade.units

\* a bug: the extreme is overwritten with every price
UpdateExtremeAlways(trade, current_price) ==
    IF trade.side = "BUY"
    THEN [trade EXCEPT !.max_price = Some(current_price)]
    ELSE [trade EXCEPT !.min_price = Some(current_price)]

\* "if current_price > trade['max_price']" / "if current_price < trade['min_price']"
UpdateExtreme(trade, current_price) ==
    IF trade.side = "BUY"
    THEN IF current_price > Val(trade.max_price)
         THEN [trade EXCEPT !.max_price = Some(current_price)] ELSE trade
    ELSE IF current_price < Val(trade.min_price)
         THEN [trade EXCEPT !.min_price = Some(current_price)] ELSE trade

\* a bug: one activation fraction for both sides
EligibleSymmetric(trade, current_price) ==
    IF trade.side = "BUY"
    THEN (current_price - trade.entry_price) * 100
            > (trade.take_profit_price - trade.entry_price) * SellActivationPct
    ELSE (trade.entry_price - current_price) * 100
            > (trade.entry_price - trade.take_profit_price) * SellActivationPct

\* (current_price - entry) > profit_threshold, the threshold being the activation
\* fraction of the planned take-profit distance
Eligible(trade, current_price) ==
    IF trade.side = "BUY"
    THEN (current_price - trade.entry_price) * 100
            > (trade.take_profit_price - trade.entry_price) * BuyActivationPct
    ELSE (trade.entry_price - current_price) * 100
            > (trade.entry_price - trade.take_profit_price) * SellActivationPct

\* current_price against trailing_stop_level, computed from the updated extreme
TrailingStopHit(trade, current_price) ==
    IF trade.side = "BUY"
    THEN current_price < Val(trade.max_price) - TRAILING_STOP_PIPS * PIP
    ELSE current_price > Val(trade.min_price) + TRAILING_STOP_PIPS * PIP

\* a bug: a closure at zero PnL counts as a loss
LossesAfterNonPositive(profit, losses) == IF profit <= 0 THEN losses + 1 ELSE 0

\* the update of consecutive_losses after a confirmed trailing-stop closure
LossesAfter(profit, losses) == IF profit < 0 THEN losses + 1 ELSE 0

RECURSIVE WithoutIds(_, _)
\* the trades of a list whose order id is not in S, in order
WithoutIds(trades, S) ==
    IF trades = <<>> THEN <<>>
    ELSE IF Head(trades).order_id \in S
         THEN WithoutIds(Tail(trades), S)
         ELSE <<Head(trades)>> \o WithoutIds(Tail(trades), S)

\* open_trades.remove(trade) after close_all_trades(client, [trade]) == []
RemoveClosed(trades, trade) == WithoutIds(trades, {trade.order_id})

\* open_trades with the dict of one trade replaced (the dicts are mutated in place)
WithTrade(trades, trade) ==
    [k \in 1..Len(trades) |->
        IF trades[k].order_id = trade.order_id THEN trade ELSE trades[k]]

\* results of the one-bar re-fetch for an instrument: an empty frame or a close
Refetches(inst) == {None} \cup {Some(p) : p \in Prices[inst]}

\* latest_prices.get(inst), else the close of the one-bar re-fetch, else nothing
CurrentPrice(inst, refetch) ==
    IF latest_prices[inst] # None THEN latest_prices[inst] ELSE refetch

\* "for trade in open_trades.copy()" after the body ran for the head of the copy:
\* the next trade, or the kill-switch pass
ForTrade ==
    /\ pc = "for_trade"
    /\ trail_q' = Tail(trail_q)
    /\ pc' = IF Tail(trail_q) = <<>> THEN "kill" ELSE "trail"
    /\ managed' = IF Tail(trail_q) = <<>> THEN managed \cup {"trail"} ELSE managed
    /\ ev' = [NoEv EXCEPT !.type = "for"]
    /\ UNCHANGED <<current_day, day_state, open_trades, instrument_data, latest_prices,
                   idx, confirmed_signal, activated, retry>>
    /\ UNCHANGED call

\* one pass of the trailing-stop loop over the trade at the head of the copy
TrailTrade ==
    /\ pc = "trail"
    /\ LET old == TradeById(open_trades, Head(trail_q)) IN
       \E refetch \in Refetches(old.instrument), close_ok \in BOOLEAN :
        LET cp == CurrentPrice(old.instrument, refetch) IN
        IF cp = None
        THEN /\ ev' = [NoEv EXCEPT !.type = "trail", !.trade = Some(old),
                                   !.was = old.order_id \in activated]
             /\ UNCHANGED <<open_trades, consecutive_losses, activated, retry>>
        ELSE LET trade == UpdateExtreme(old, Val(cp))
                 active == Eligible(trade, Val(cp))
                 hit == active /\ TrailingStopHit(trade, Val(cp))
                 closed == hit /\ close_ok
             IN  /\ open_trades' = IF closed THEN RemoveClosed(open_trades, trade)
                                   ELSE WithTrade(open_trades, trade)
                 /\ consecutive_losses' =
                        IF closed
                        THEN LossesAfter(compute_unrealized_pnl(trade, Val(cp)),
                                         consecutive_losses)
                        ELSE consecutive_losses
                 /\ activated' = IF closed THEN activated \ {trade.order_id}
                                 ELSE IF active THEN activated \cup {trade.order_id}
                                 ELSE activated
                 /\ retry' = IF closed THEN retry \ {trade.order_id} ELSE retry
                 /\ ev' = [NoEv EXCEPT !.type = "trail", !.trade = Some(old),
                                       !.price = cp, !.was = old.order_id \in activated,
                                       !.active = active, !.req = hit,
                                       !.closed = closed,
                                       !.alert = IF hit THEN "Trailing Stop Alert" ELSE ""]
    /\ pc' = "for_trade"
    /\ UNCHANGED <<current_day, last_date, daily_trade_count, start_of_day_equity,
                   equity_date,
                   locals, managed>>
    /\ UNCHANGED call

\* the one-bar re-fetch raises, or close_all_trades raises after the extreme of
\* the trade was updated
FaultTrail ==
    /\ pc = "trail"
    /\ LET old == TradeById(open_trades, Head(trail_q)) IN
       \/ /\ latest_prices[old.instrument] = None
          /\ ev' = [FaultEv("trail_fetch") EXCEPT !.trade = Some(old)]
          /\ UNCHANGED <<open_trades, activated, retry>>
       \/ \E refetch \in Refetches(old.instrument) :
            LET cp == CurrentPrice(old.instrument, refetch)
                trade == UpdateExtreme(old, Val(cp))
            IN  /\ cp # None
                /\ Eligible(trade, Val(cp))
                /\ TrailingStopHit(trade, Val(cp))
                /\ open_trades' = WithTrade(open_trades, trade)
                /\ activated' = activated \cup {trade.order_id}
                /\ retry' = retry
                /\ ev' = [FaultEv("trail_close") EXCEPT
                            !.trade = Some(old), !.price = cp, !.active = TRUE,
                            !.req = TRUE]
    /\ pc' = HandlerNext
    /\ UNCHANGED <<current_day, day_state, locals, managed>>
    /\ UNCHANGED call

\* what the kill-switch pass sees of instrument inst: latest_prices.get(inst), else
\* the close quote[inst] of the one-bar re-fetch when it returned a bar
KillPrice(inst, quote, fetched) ==
    IF latest_prices[inst] # None THEN latest_prices[inst]
    ELSE IF fetched[inst] THEN Some(quote[inst]) ELSE None

RECURSIVE UnrealizedLoss(_, _, _)
\* total_unrealized_loss: the sum of the negative PnLs of the trades with a price
UnrealizedLoss(trades, quote, fetched) ==
    IF trades = <<>> THEN 0
    ELSE LET trade == Head(trades)
             cp == KillPrice(trade.instrument, quote, fetched)
             pnl == IF cp = None THEN 0 ELSE compute_unrealized_pnl(trade, Val(cp))
         IN  (IF pnl < 0 THEN pnl ELSE 0) + UnrealizedLoss(Tail(trades), quote, fetched)

\* a bug: the limit itself does not trip the kill-switch
LossLimitExceeded(total_unrealized_loss, equity) ==
    Abs(total_unrealized_loss) > equity * DAILY_DRAWDOWN_LIMIT_PCT

\* abs(total_unrealized_loss) >= start_of_day_equity * (DAILY_DRAWDOWN_LIMIT_PCT / 100.0),
\* the loss in thousandths of a currency unit
LossLimitReached(total_unrealized_loss, equity) ==
    Abs(total_unrealized_loss) >= equity * DAILY_DRAWDOWN_LIMIT_PCT

\* the broker's closes at the time of the kill-switch pass: for an instrument with
\* a latest price that price, for the others any close
KillQuotes == {m \in Markets : \A i \in Instruments :
                  latest_prices[i] # None => m[i] = Val(latest_prices[i])}
\* which one-bar re-fetches return a bar; instruments with a latest price are not
\* re-fetched
KillFetches == {f \in [Instruments -> BOOLEAN] : \A i \in Instruments :
                  (latest_prices[i] # None
                     \/ \A k \in 1..Len(open_trades) : open_trades[k].instrument # i)
                  => f[i]}

\* a bug: the list is emptied whatever close_all_trades returned
AfterCloseAllEmptied(trades, failing) == <<>>

\* what the kill-switch does with the list once the limit is reached:
\* open_trades = close_all_trades(client, open_trades), the trades that failed
AfterCloseAll(trades, failing) == WithoutIds(trades, Ids(trades) \ failing)

\* the aggregate unrealized-loss pass and the closing of all trades, then sleep(60)
KillSwitch ==
    /\ pc = "kill"
    /\ \E quote \in KillQuotes, fetched \in KillFetches,
          failing \in SUBSET Ids(open_trades) :
        LET total == UnrealizedLoss(open_trades, quote, fetched)
            fired == LossLimitReached(total, Val(start_of_day_equity))
        IN  /\ ~fired => failing = {}
            /\ open_trades' = IF fired THEN AfterCloseAll(open_trades, failing)
                              ELSE open_trades
            /\ activated' = IF fired THEN activated \cap failing ELSE activated
            /\ retry' = IF fired THEN failing ELSE {}
            /\ ev' = [NoEv EXCEPT
                        !.type = "done", !.fired = fired, !.quote = quote,
                        !.priced = {open_trades[k].order_id : k \in
                                      {j \in 1..Len(open_trades) :
                                         KillPrice(open_trades[j].instrument,
                                                   quote, fetched) # None}},
                        !.before = open_trades,
                        !.failed = IF fired THEN WithoutIds(open_trades,
                                                            Ids(open_trades) \ failing)
                                   ELSE <<>>,
                        !.alert = IF fired THEN "Daily Loss Limit Exceeded" ELSE ""]
    /\ pc' = "sleep"
    /\ managed' = managed \cup {"kill"}
    /\ UNCHANGED <<current_day, last_date, daily_trade_count, consecutive_losses,
                   start_of_day_equity, equity_date, locals>>
    /\ UNCHANGED call

\* a one-bar re-fetch of the kill-switch pass raises, or close_all_trades raises
FaultKill ==
    /\ pc = "kill"
    /\ \/ \E k \in 1..Len(open_trades) : latest_prices[open_trades[k].instrument] = None
       \/ \E quote \in KillQuotes, fetched \in KillFetches :
            LossLimitReached(UnrealizedLoss(open_trades, quote, fetched),
                             Val(start_of_day_equity))
    /\ pc' = HandlerNext
    /\ ev' = FaultEv("kill")
    /\ UNCHANGED <<current_day, day_state, open_trades, locals, managed, activated, retry>>
    /\ UNCHANGED call

\* asyncio.sleep returns and "while True" starts the next iteration; the locals of
\* the finished iteration (instrument_data, latest_prices, the loop positions) are
\* dead and are put back to their initial values
Sleep ==
    /\ pc = "sleep"
    /\ pc' = "top"
    /\ managed' = {}
    /\ ev' = [NoEv EXCEPT !.type = "wake"]
    /\ instrument_data' = NoData
    /\ latest_prices' = NoPrices
    /\ idx' = 1
    /\ confirmed_signal' = "FLAT"
    /\ trail_q' = <<>>
    /\ UNCHANGED <<current_day, day_state, open_trades, activated, retry>>
    /\ UNCHANGED call

Next ==
    \/ SessionGate
    \/ DayCheck
    \/ FaultResetBalance
    \/ FaultCurrentBalance
    \/ FaultZeroEquity
    \/ DrawdownGate
    \/ EquityCheck
    \/ FetchAll
    \/ ForInstrument
    \/ SkipInstrument
    \/ FlatMarket
    \/ Decide
    \/ NoOrder
    \/ PlaceOrder
    \/ FaultEval
    \/ ForTrade
    \/ TrailTrade
    \/ FaultTrail
    \/ KillSwitch
    \/ FaultKill
    \/ Sleep

Spec == Init /\ [][Next]_vars

(* ---------------------- direct calls of functions --------------------- *)
\* the variables of main_async, untouched by a direct call
loop_vars == <<pc, current_day, day_state, open_trades, locals, managed, activated,
               retry, ev>>

\* the call returns
Returned(result) ==
    /\ call.result = None
    /\ call' = [call EXCEPT !.result = Some(result)]
    /\ UNCHANGED loop_vars

\* trades, closing prices and counter values for the closure bookkeeping
ClosureSides == {"BUY", "SELL"}
ClosureEntries == {110000, 125000}
ClosureMoves == {0 - 200, 0 - 1, 0, 1, 200}
ClosureUnits == {0, 1, 2500}
ClosureLosses == 0..MAX_CONSECUTIVE_LOSSES

ClosureArgs ==
    [side : ClosureSides, entry_price : ClosureEntries, move : ClosureMoves,
     units : ClosureUnits, losses : ClosureLosses]

ClosureInit ==
    /\ LoopInit
    /\ call \in [fn : {"closure"}, args : ClosureArgs, result : {None}]

\* the bookkeeping after close_all_trades(client, [trade]) == []: the PnL at the
\* closing price and the new value of consecutive_losses
ConfirmedClosure ==
    /\ call.fn = "closure"
    /\ LET a == call.args
           trade == [side |-> a.side, entry_price |-> a.entry_price, units |-> a.units]
           current_price == a.entry_price + a.move
       IN  Returned(LossesAfter(compute_unrealized_pnl(trade, current_price), a.losses))

ClosureSpec == ClosureInit /\ [][ConfirmedClosure]_vars

\* sides, latest closes and ATR values (whole pips, so that the distances are
\* whole points) for the stop and target of an order
LevelSides == {"BUY", "SELL"}
LevelPrices == {110000, 110180, 110480, 125000, 125200}
LevelAtrs == {0, 10, 20, 100, 130, 250}

LevelsInit ==
    /\ LoopInit
    /\ call \in [fn : {"levels"},
                 args : [side : LevelSides, price : LevelPrices, atr : LevelAtrs],
                 result : {None}]

\* the ATR-based stop-loss and take-profit prices handed to place_order
OrderLevels ==
    /\ call.fn = "levels"
    /\ LET a == call.args
       IN  Returned([stop |-> stop_loss_price(a.side, a.price, a.atr),
                     target |-> take_profit_price(a.side, a.price, a.atr)])

LevelsSpec == LevelsInit /\ [][OrderLevels]_vars

(* ------------------------- indicators.compute_adx --------------------- *)
\* Bars are records [high, low, close] of small integers.  A float that is NaN is
\* None.  The series smoothed with ewm(alpha=1/period, adjust=False) are kept
\* multiplied by period^(t-1) at bar t, which leaves every ratio of two of them
\* at the same bar unchanged.
ADX_PERIOD == 14
\* longest series given to an indicator function
MaxBars == 4
AdxBars ==
    {[high |-> 3, low |-> 1, close |-> 2], [high |-> 4, low |-> 2, close |-> 3],
     [high |-> 3, low |-> 1, close |-> 3], [high |-> 2, low |-> 2, close |-> 2]}
AdxSeries == UNION {[1..n -> AdxBars] : n \in 1..MaxBars}

RECURSIVE Pow(_, _)
Pow(b, n) == IF n = 0 THEN 1 ELSE b * Pow(b, n - 1)

Max2(x, y) == IF x > y THEN x ELSE y

\* np.where((diff_high > diff_low) & (diff_high > 0), diff_high, 0.0); on the first
\* bar the diffs are NaN and both comparisons are False
PlusDM(bars, t) ==
    IF t = 1 THEN 0
    ELSE LET diff_high == bars[t].high - bars[t - 1].high
             diff_low == bars[t].low - bars[t - 1].low
         IN  IF diff_high > diff_low /\ diff_high > 0 THEN diff_high ELSE 0

\* np.where((diff_low > diff_high) & (diff_low > 0), diff_low, 0.0)
MinusDM(bars, t) ==
    IF t = 1 THEN 0
    ELSE LET diff_high == bars[t].high - bars[t - 1].high
             diff_low == bars[t].low - bars[t - 1].low
         IN  IF diff_low > diff_high /\ diff_low > 0 THEN diff_low ELSE 0

\* the row maximum of the three TR methods; max(axis=1) skips the NaN of the
\* shifted close on the first bar
TrueRange(bars, t) ==
    IF t = 1 THEN bars[t].high - bars[t].low
    ELSE Max2(bars[t].high - bars[t].low,
              Max2(Abs(bars[t].high - bars[t - 1].close),
                   Abs(bars[t].low - bars[t - 1].close)))

RECURSIVE WilderSmooth(_, _)
\* ewm(alpha=1/period, adjust=False).mean() of xs at bar t, times period^(t-1):
\* y[1] = x[1], y[t] = (1 - 1/period) * y[t-1] + (1/period) * x[t]
WilderSmooth(xs, t) ==
    IF t = 1 THEN xs[1]
    ELSE (ADX_PERIOD - 1) * WilderSmooth(xs, t - 1) + Pow(ADX_PERIOD, t - 1) * xs[t]

\* DX = |+DI - -DI| / (+DI + -DI) * 100 with +DI = 100 * +DM_smooth / TR_smooth and
\* -DI = 100 * -DM_smooth / TR_smooth, in float arithmetic: 0/0 is NaN, x/0 is
\* inf, and NaN or inf operands end in NaN; otherwise the integer part
DirectionalIndex(plus_dm_smooth, minus_dm_smooth, tr_smooth) ==
    IF tr_smooth = 0 THEN None
    ELSE IF plus_dm_smooth + minus_dm_smooth = 0 THEN None
    ELSE Some((100 * Abs(plus_dm_smooth - minus_dm_smooth))
                 \div (plus_dm_smooth + minus_dm_smooth))

\* compute_adx up to the DX column, and the first value of the ADX column (the
\* first output of ewm(adjust=False).mean() is its first input)
compute_adx(bars) ==
    LET N == Len(bars)
        plus == [t \in 1..N |-> WilderSmooth([u \in 1..N |-> PlusDM(bars, u)], t)]
        minus == [t \in 1..N |-> WilderSmooth([u \in 1..N |-> MinusDM(bars, u)], t)]
        tr == [t \in 1..N |-> WilderSmooth([u \in 1..N |-> TrueRange(bars, u)], t)]
        dx == [t \in 1..N |-> DirectionalIndex(plus[t], minus[t], tr[t])]
    IN  [plus_dm_smooth |-> plus, minus_dm_smooth |-> minus, tr_smooth |-> tr,
         dx |-> dx, adx_first |-> dx[1]]

AdxInit ==
    /\ LoopInit
    /\ call \in [fn : {"compute_adx"}, args : AdxSeries, result : {None}]

ComputeAdx ==
    /\ call.fn = "compute_adx"
    /\ Returned(compute_adx(call.args))

AdxSpec == AdxInit /\ [][ComputeAdx]_vars

(* ------------------------- indicators.compute_rsi --------------------- *)
\* Closes are integers in units of 1e-10, the value that replaces a zero average
\* loss; one point (0.00001) is RSI_POINT units.  Sums over a window stand for
\* the rolling means (both means of a window are divided by the same period).
RSI_EPSILON == 1
RSI_POINT == 100000
RsiPeriods == {1, 2, 3}
RsiCloses == {0, RSI_POINT, 2 * RSI_POINT}
RsiArgs ==
    {a \in [closes : UNION {[1..n -> RsiCloses] : n \in 1..MaxBars},
            period : RsiPeriods] : Len(a.closes) >= a.period}

\* delta.clip(lower=0) and -delta.clip(upper=0) at bar t >= 2
Gain(closes, t) == Max2(closes[t] - closes[t - 1], 0)
Loss(closes, t) == Max2(closes[t - 1] - closes[t], 0)

RECURSIVE WindowSum(_, _, _)
\* the sum of the series x over the bars from..to
WindowSum(x, from, to) ==
    IF from > to THEN 0 ELSE x[from] + WindowSum(x, from + 1, to)

\* a bug: a zero average loss is not replaced
KeepZero(loss_sum, period) == loss_sum

\* avg_loss.replace(0, 1e-10), as a sum over the window
ReplaceZero(loss_sum, period) ==
    IF loss_sum = 0 THEN RSI_EPSILON * period ELSE loss_sum

\* 100 - (100 / (1 + rs)) with rs = gain_sum / loss_sum in float arithmetic, as
\* the fraction num/den: 0/0 is NaN, x/0 is inf and gives 100
RsiValue(gain_sum, loss_sum) ==
    IF loss_sum = 0
    THEN IF gain_sum = 0 THEN None ELSE Some([num |-> 100, den |-> 1])
    ELSE Some([num |-> 100 * gain_sum, den |-> gain_sum + loss_sum])

\* compute_rsi: rolling(window=period).mean() is NaN while the window holds
\* fewer than period values or the NaN of the first diff
compute_rsi(closes, period) ==
    [t \in 1..Len(closes) |->
        IF t - period + 1 < 2 THEN None
        ELSE LET gain == [k \in 2..Len(closes) |-> Gain(closes, k)]
                 loss == [k \in 2..Len(closes) |-> Loss(closes, k)]
             IN  RsiValue(WindowSum(gain, t - period + 1, t),
                          ReplaceZero(WindowSum(loss, t - period + 1, t), period))]

RsiInit ==
    /\ LoopInit
    /\ call \in [fn : {"compute_rsi"}, args : RsiArgs, result : {None}]

ComputeRsi ==
    /\ call.fn = "compute_rsi"
    /\ Returned(compute_rsi(call.args.closes, call.args.period))

RsiSpec == RsiInit /\ [][ComputeRsi]_vars

(* -------------------- data_fetch.fetch_data_for_period ---------------- *)
\* Times are integers in seconds.  A candle is a record [time, complete]; the
\* prices of a candle play no part in the loop.
\* datetime.timedelta(minutes=5000) and datetime.timedelta(seconds=1)
CHUNK_SECONDS == 300000
OFFSET_SECONDS == 1
\* most candles in one response of the broker
MaxCandles == 2

FetchStarts == {0, 60}
FetchEnds == {0, 300000, 300001, 600002}
CandleTimes == {0, 60, 300000}
Candles == [time : CandleTimes, complete : BOOLEAN]
\* req.response of one request: the list under "candles"
Responses == UNION {[1..n -> Candles] : n \in 0..MaxCandles}

\* [... for c in candles if c.get("complete", False)]
RECURSIVE CompleteOnly(_)
CompleteOnly(candles) ==
    IF candles = <<>> THEN <<>>
    ELSE (IF Head(candles).complete THEN <<Head(candles)>> ELSE <<>>)
         \o CompleteOnly(Tail(candles))

\* pd.concat(all_candles)
RECURSIVE Concat(_)
Concat(chunks) == IF chunks = <<>> THEN <<>> ELSE Head(chunks) \o Concat(Tail(chunks))

\* a bug: duplicated index values are kept
KeepDuplicates(rows) == rows

\* final_df[~final_df.index.duplicated(keep="first")]
DropDuplicates(rows) ==
    LET kept == {k \in 1..Len(rows) : \A j \in 1..(k - 1) : rows[j].time # rows[k].time}
        F[k \in 0..Len(rows)] ==
            IF k = 0 THEN <<>>
            ELSE IF k \in kept THEN Append(F[k - 1], rows[k]) ELSE F[k - 1]
    IN  F[Len(rows)]

\* the place of row k of rows in the order of the timestamps, rows of the same
\* timestamp staying in their order
RankByTime(rows, k) ==
    1 + Cardinality({j \in 1..Len(rows) :
                        \/ rows[j].time < rows[k].time
                        \/ rows[j].time = rows[k].time /\ j < k})

\* final_df.sort_index()
SortIndex(rows) ==
    [p \in 1..Len(rows) |-> rows[CHOOSE k \in 1..Len(rows) : RankByTime(rows, k) = p]]

\* a bug: the window of a request is not limited to 5000 minutes
ChunkEndUnlimited(current_start, end_dt) == end_dt

\* chunk_end of the request that starts at current_start
ChunkEnd(current_start, end_dt) ==
    IF current_start + CHUNK_SECONDS > end_dt THEN end_dt
    ELSE current_start + CHUNK_SECONDS

FetchInit ==
    /\ LoopInit
    /\ call \in [fn : {"fetch_data_for_period"},
                 args : [start : FetchStarts, end : FetchEnds],
                 local : [current_start : FetchStarts, all_candles : {<<>>},
                          requests : {0}, looping : {TRUE},
                          window : {None}, answer : {""}],
                 result : {None}]
    /\ call.local.current_start = call.args.start

\* one pass of "while True": the request fails (V20Error), or answers with a list
\* of candles
FetchChunk ==
    /\ call.fn = "fetch_data_for_period"
    /\ call.result = None
    /\ call.local.looping
    /\ \E failed \in BOOLEAN, candles \in Responses :
        LET l == call.local
            chunk_end == ChunkEnd(l.current_start, call.args.end)
            chunk_df == CompleteOnly(candles)
            stop == failed \/ candles = <<>> \/ chunk_end >= call.args.end
        IN  /\ failed => candles = <<>>
            /\ call' = [call EXCEPT
                  !.local = [current_start |-> IF stop THEN l.current_start
                                               ELSE chunk_end + OFFSET_SECONDS,
                             all_candles |-> IF failed \/ chunk_df = <<>>
                                             THEN l.all_candles
                                             ELSE Append(l.all_candles, chunk_df),
                             requests |-> l.requests + 1,
                             looping |-> ~stop,
                             window |-> Some([from |-> l.current_start,
                                              to |-> chunk_end]),
                             answer |-> IF failed THEN "error"
                                        ELSE IF candles = <<>> THEN "empty"
                                        ELSE "candles"]]
    /\ UNCHANGED loop_vars

\* after the loop: concat, drop duplicated timestamps, sort by time
FetchReturn ==
    /\ call.fn = "fetch_data_for_period"
    /\ ~call.local.looping
    /\ \E concat \in {Concat(call.local.all_candles)} :
       \E unique \in {DropDuplicates(concat)} :
       \E final_df \in {SortIndex(unique)} :
            Returned(final_df)

FetchNext == FetchChunk \/ FetchReturn

FetchSpec == FetchInit /\ [][FetchNext]_vars

\* the call runs on: client.request returns or raises, and the statements after
\* the loop are executed
FetchFairSpec == FetchSpec /\ WF_vars(FetchNext)

(* ------------------------------ properties ---------------------------- *)
\* C1: the confirmed decision is BUY exactly for base signal BUY with both the M15
\* and the M5 trend up, SELL exactly for base signal SELL with both trends down,
\* and FLAT for every other combination; place_order is called only for a
\* confirmed BUY or SELL.
C1_ConfirmationGate ==
    /\ pc = "decided" =>
        /\ confirmed_signal \in {"BUY", "SELL", "FLAT"}
        /\ confirmed_signal = "BUY"
              <=> (ev.signal = "BUY" /\ ev.t15 = "up" /\ ev.t5 = "up")
        /\ confirmed_signal = "SELL"
              <=> (ev.signal = "SELL" /\ ev.t15 = "down" /\ ev.t5 = "down")
    /\ ev.type = "order" => ev.confirmed \in {"BUY", "SELL"}
    /\ ev.type = "no_order" => ev.order = None

\* an order was placed and accepted for a confirmed SELL
C1_Witness ==
    ev.type = "order" /\ ev.confirmed = "SELL" /\ ev.order # None

\* the loss of one trade at a broker close: its negative PnL, gains counting zero
LossAt(trade, close) ==
    LET move == IF trade.side = "BUY" THEN close - trade.entry_price
                ELSE trade.entry_price - close
    IN  IF move < 0 THEN move * trade.units ELSE 0

RECURSIVE LossOver(_, _, _)
\* the sum of the losses, at the closes of quote, of the trades whose id is in S
LossOver(trades, quote, S) ==
    IF trades = <<>> THEN 0
    ELSE (IF Head(trades).order_id \in S
          THEN LossAt(Head(trades), quote[Head(trades).instrument]) ELSE 0)
         + LossOver(Tail(trades), quote, S)

\* C2 (as amended): at the kill-switch step the close of every open trade is
\* requested when, and only when, the absolute sum of the negative unrealized PnLs
\* of the open trades that have a price in this iteration reaches starting-of-day
\* equity x DAILY_DRAWDOWN_LIMIT_PCT / 100.
C2_KillSwitchOverPricedTrades ==
    ev.type = "done" =>
        (ev.fired <=> Abs(LossOver(ev.before, ev.quote, ev.priced))
                        >= Val(start_of_day_equity) * DAILY_DRAWDOWN_LIMIT_PCT)

\* C2 (as stated): the sum runs over all open trades
C2_KillSwitchOverAllTrades ==
    ev.type = "done" =>
        (ev.fired <=> Abs(LossOver(ev.before, ev.quote, Ids(ev.before)))
                        >= Val(start_of_day_equity) * DAILY_DRAWDOWN_LIMIT_PCT)

\* the kill-switch fired on the loss of one trade while another had no price
C2_Witness ==
    /\ ev.type = "done"
    /\ ev.fired
    /\ Len(ev.before) = 2
    /\ ev.priced # Ids(ev.before)

\* C3: when the drawdown gate trips with trades open, the trailing-stop pass and
\* the kill-switch evaluation have both run by the time the loop sleeps.
C3_ManagedWhenGateTrips ==
    (pc = "sleep" /\ ev.type = "drawdown" /\ open_trades # <<>>)
        => managed = {"trail", "kill"}

\* C4: a trade whose trailing stop was Active in an earlier managed iteration is
\* Active in every later one in which it is managed.
C4_ActiveStaysActive ==
    (ev.type = "trail" /\ ev.price # None /\ ev.was) => ev.active

\* the favourable extreme of a trade after a price was seen
ExtremeAfter(trade, price) ==
    IF trade.side = "BUY"
    THEN IF price > Val(trade.max_price) THEN price ELSE Val(trade.max_price)
    ELSE IF price < Val(trade.min_price) THEN price ELSE Val(trade.min_price)

\* favourable movement from entry strictly exceeds the side's activation fraction
\* of the planned take-profit distance
MovedEnough(trade, price) ==
    IF trade.side = "BUY"
    THEN 100 * (price - trade.entry_price)
            > BuyActivationPct * (trade.take_profit_price - trade.entry_price)
    ELSE 100 * (trade.entry_price - price)
            > SellActivationPct * (trade.entry_price - trade.take_profit_price)

\* the price crossed the trailing level against the position
Crossed(trade, price) ==
    IF trade.side = "BUY"
    THEN price < ExtremeAfter(trade, price) - TRAILING_STOP_PIPS * PIP
    ELSE price > ExtremeAfter(trade, price) + TRAILING_STOP_PIPS * PIP

ExtremeBeyondEntry ==
    \A k \in 1..Len(open_trades) :
        LET trade == open_trades[k] IN
        IF trade.side = "BUY"
        THEN trade.max_price # None /\ Val(trade.max_price) >= trade.entry_price
        ELSE trade.min_price # None /\ Val(trade.min_price) <= trade.entry_price

\* no step moves the extreme of a trade that stays open against the position
ExtremeMonotonic ==
    \A id \in Ids(open_trades) \cap Ids(open_trades') :
        LET before == TradeById(open_trades, id)
            after == TradeById(open_trades', id)
        IN  /\ after.side = before.side
            /\ after.entry_price = before.entry_price
            /\ IF before.side = "BUY"
               THEN Val(after.max_price) >= Val(before.max_price)
               ELSE Val(after.min_price) <= Val(before.min_price)

\* C6: for the life of a trade, a BUY trade's max_price never decreases and is
\* >= its entry price; a SELL trade's min_price never increases and is <= entry.
C6_ExtremeMonotonic == []ExtremeBeyondEntry /\ [][ExtremeMonotonic]_vars

\* a BUY trade was managed at a price below its extreme and kept the extreme
C6_Witness ==
    /\ ev.type = "trail"
    /\ ev.price # None
    /\ \E k \in 1..Len(open_trades) :
        /\ open_trades[k].order_id = Val(ev.trade).order_id
        /\ open_trades[k].side = "BUY"
        /\ Val(open_trades[k].max_price) > open_trades[k].entry_price
        /\ Val(ev.price) < Val(open_trades[k].max_price)

\* a caught fault leaves the loop alive: alert sent, backoff pending
FaultCaught ==
    /\ pc # "halt"
    /\ ev.type = "fault" => (pc = "sleep" /\ ev.alert = "Trading Bot Error")

\* the raising step keeps the open-trade set, and the backoff ends in a new
\* iteration with the open trades and the day state as they were
FaultRetains ==
    /\ ev'.type = "fault" => Ids(open_trades') = Ids(open_trades)
    /\ ev.type = "fault" =>
        /\ pc' = "top"
        /\ open_trades' = open_trades
        /\ day_state' = day_state

\* C7: a fault raised by any step of an iteration is caught at the loop boundary,
\* an alert is sent, the loop never ends, and after the backoff a further
\* iteration starts with the open-trade set and the day state retained.
C7_FaultContained == []FaultCaught /\ [][FaultRetains]_vars

\* a close raised in the trailing-stop pass and was caught with a trade open
C7_Witness ==
    pc = "sleep" /\ ev.type = "fault" /\ ev.at = "trail_close" /\ open_trades # <<>>

\* C8: when the fetch of one instrument fails, the iteration goes on: the failed
\* instrument has an empty series and every other instrument keeps its bars for
\* the evaluation.
C8_FetchFailsSoft ==
    (ev.res # <<>> /\ \E i \in Instruments : ev.res[i] = "raise") =>
        /\ ev.type = "fetch"
        /\ pc = "eval"
        /\ instrument_data =
              [i \in Instruments |-> IF ev.res[i] = "ok" THEN "ok" ELSE "empty"]

\* C9: place_order is not called with a zero size from the position sizer.
C9_ZeroSizeSkipped ==
    ev.type = "order" => ev.size > 0

\* what a step may do to the open-trade set: removal only on a confirmed close
RemovalOnlyWhenConfirmed ==
    LET removed == Ids(open_trades) \ Ids(open_trades') IN
    /\ removed # {} =>
        \/ /\ ev'.type = "trail"
           /\ ev'.closed
           /\ removed = {Val(ev'.trade).order_id}
        \/ /\ ev'.type = "done"
           /\ ev'.fired
           /\ removed \cap Ids(ev'.failed) = {}
    /\ (pc = "trail" /\ ev'.type = "trail" /\ ev'.req /\ ~ev'.closed) =>
        /\ Ids(open_trades') = Ids(open_trades)
        /\ consecutive_losses' = consecutive_losses
    /\ (pc = "kill" /\ ev'.type = "done" /\ ev'.fired) => open_trades' = ev'.failed

\* C10: a trade leaves the open-trade set only when its close was confirmed; a
\* failed trailing-stop close leaves the trade open and the consecutive-loss
\* counter unchanged; after a kill-switch close the set is the returned list of
\* trades that failed to close.
C10_RemovedOnlyWhenClosed == [][RemovalOnlyWhenConfirmed]_vars

\* the kill-switch closed one of two trades and the other failed to close
C10_Witness ==
    /\ ev.type = "done"
    /\ ev.fired
    /\ Len(ev.before) = 2
    /\ Len(ev.failed) = 1
    /\ open_trades = ev.failed

\* what the step that calls place_order does with the answer, and where the
\* per-instrument loop goes afterwards
OrderRegistered ==
    /\ (pc = "decided" /\ ev'.type = "order" /\ ev'.order = None) =>
        /\ open_trades' = open_trades
        /\ daily_trade_count' = daily_trade_count
    /\ (pc = "decided" /\ ev'.type = "order" /\ ev'.order # None) =>
        /\ Len(open_trades') = Len(open_trades) + 1
        /\ SubSeq(open_trades', 1, Len(open_trades)) = open_trades
        /\ LET trade == open_trades'[Len(open_trades')] IN
            /\ trade.order_id = Val(ev'.order)
            /\ trade.instrument = ev'.inst
            /\ trade.side = ev'.confirmed
            /\ trade.entry_price = Val(latest_prices[ev'.inst])
            /\ trade.take_profit_price = ev'.target
            /\ Cardinality({k \in 1..Len(open_trades') :
                              open_trades'[k].order_id = trade.order_id}) = 1
        /\ daily_trade_count' = daily_trade_count + 1
    /\ (pc = "decided" /\ ev'.type = "order") =>
        (ev'.inst = idx /\ pc' = "for_instrument")
    /\ pc = "for_instrument" => (idx' > idx \/ pc' \in {"trail", "kill"})
    /\ idx' < idx => pc \in {"sleep", "fetch"}

\* C11: when place_order returns no id, no trade is registered, the daily trade
\* count is unchanged and the instrument is not tried again in the iteration;
\* when it returns an id, exactly one trade with that id, the confirmed side, the
\* latest close as entry and the computed take-profit is appended and the daily
\* trade count grows by one.
C11_OrderRegistration == [][OrderRegistered]_vars

\* the broker rejected an order of positive size
C11_Witness ==
    ev.type = "order" /\ ev.order = None /\ ev.size > 0 /\ pc = "for_instrument"

\* C12: a trade that failed to close under the kill-switch is taken up again by
\* the kill-switch of the next iteration: every iteration that passes the session
\* gate and ends without a fault while such a trade is open has run the
\* kill-switch evaluation.
C12_CloseRetried ==
    (pc = "sleep" /\ ev.type \notin {"session", "fault"} /\ retry # {})
        => "kill" \in managed

\* C13: place_order is never called while daily_trade_count >= MAX_TRADES_PER_DAY
\* or consecutive_losses >= MAX_CONSECUTIVE_LOSSES, and daily_trade_count never
\* exceeds MAX_TRADES_PER_DAY.
C13_CapsGateOrders ==
    /\ daily_trade_count <= MAX_TRADES_PER_DAY
    /\ ev.type = "order" =>
        /\ daily_trade_count - (IF ev.order # None THEN 1 ELSE 0) < MAX_TRADES_PER_DAY
        /\ consecutive_losses < MAX_CONSECUTIVE_LOSSES

\* a confirmed signal of the second instrument was dropped at the trade cap
C13_Witness ==
    /\ ev.type = "no_order"
    /\ ev.confirmed \in {"BUY", "SELL"}
    /\ ev.inst = 2
    /\ daily_trade_count = MAX_TRADES_PER_DAY

\* what the step at the top of an iteration does to the day state
ResetOncePerDate ==
    /\ (pc = "top" /\ ev'.type # "session" /\ last_date # Some(current_day')) =>
        /\ last_date' = Some(current_day')
        /\ daily_trade_count' = 0
        /\ consecutive_losses' = 0
        /\ start_of_day_equity' # None
        /\ equity_date' = Some(current_day')
    /\ (pc = "top" /\ ev'.type # "session" /\ last_date = Some(current_day')) =>
        day_state' = day_state
    /\ pc # "top" => last_date' = last_date
    /\ (pc = "decided" /\ ev'.type = "order") => last_date = Some(current_day)

\* C14: on every UTC date, the first iteration that passes the session gate resets
\* the trade count, the consecutive-loss count and the starting equity, before
\* any order of the date; no later iteration of the date resets them.
C14_ResetOncePerDate == [][ResetOncePerDate]_vars

\* the sign of PnL = (price - entry) x units x 0.0001 for BUY and
\* (entry - price) x units x 0.0001 for SELL is negative
PnlNegative(a) ==
    IF a.side = "BUY" THEN a.move * a.units < 0 ELSE (0 - a.move) * a.units < 0

\* C15: on a confirmed trailing-stop closure the consecutive-loss counter grows by
\* exactly one when the trade's unrealized PnL at the closing price is negative,
\* and is reset to 0 otherwise.
C15_LossCounterFromPnlSign ==
    (call.fn = "closure" /\ call.result # None) =>
        Val(call.result) = IF PnlNegative(call.args) THEN call.args.losses + 1 ELSE 0

\* a SELL trade closed above its entry and the counter went from 1 to 2
C15_Witness ==
    /\ call.fn = "closure"
    /\ call.args.side = "SELL"
    /\ call.args.move > 0
    /\ call.args.units > 0
    /\ call.args.losses = 1
    /\ call.result = Some(2)

\* the gate tripped or not as dd_pct = (current - start) / start x 100 says
GateAsDrawdownSays ==
    ev.type \in {"drawdown", "equity"} =>
        LET start == Val(start_of_day_equity)
            tripped == ev.type = "drawdown"
        IN  /\ start > 0
            /\ tripped <=> (start - ev.balance) * 1000 >= DAILY_DRAWDOWN_LIMIT_PCT * start
            /\ start = 10000 => (tripped <=> ev.balance <= 9250)
            /\ tripped => pc = "sleep"

\* the iteration of a tripped gate ends without an order
NoOrderAfterTrip ==
    ev.type = "drawdown" =>
        /\ pc' = "top"
        /\ open_trades' = open_trades
        /\ daily_trade_count' = daily_trade_count

C17_StopAndTarget ==
    (call.fn = "levels" /\ call.result # None /\ call.args.atr > 0) =>
        LET a == call.args
            r == Val(call.result)
        IN  /\ Abs(a.price - r.stop) * 10 = a.atr * 15
            /\ Abs(r.target - a.price) = 2 * Abs(a.price - r.stop)
            /\ a.side = "BUY" => (r.stop < a.price /\ a.price < r.target)
            /\ a.side = "SELL" => (r.target < a.price /\ a.price < r.stop)
            /\ (a.side = "BUY" /\ a.price = 110000 /\ a.atr = 100) =>
                   (r.stop = 109850 /\ r.target = 110300)

\* the levels of the BUY at 1.1000 with ATR 0.0010 were computed
C17_Witness ==
    /\ call.fn = "levels"
    /\ call.args = [side |-> "BUY", price |-> 110000, atr |-> 100]
    /\ call.result = Some([stop |-> 109850, target |-> 110300])

\* C18: in compute_adx a bar where +DI + -DI = 0 has DX = 0, not NaN, and the ADX
\* stays defined.
C18_ZeroDirectionalSum ==
    (call.fn = "compute_adx" /\ call.result # None) =>
        LET r == Val(call.result) IN
        /\ \A t \in 1..Len(r.dx) :
            (r.tr_smooth[t] > 0 /\ r.plus_dm_smooth[t] + r.minus_dm_smooth[t] = 0)
                => r.dx[t] = Some(0)
        /\ (r.tr_smooth[1] > 0) => r.adx_first # None

\* C19: for a series of length >= period, compute_rsi is undefined at every index
\* below period (bars 1..period) and defined within [0, 100] at every later
\* index, also for windows with zero average loss and for flat windows.
C19_RsiDefinedInRange ==
    (call.fn = "compute_rsi" /\ call.result # None) =>
        LET rsi == Val(call.result)
            period == call.args.period
        IN  /\ Len(rsi) = Len(call.args.closes)
            /\ \A t \in 1..Len(rsi) :
                IF t <= period THEN rsi[t] = None
                ELSE /\ rsi[t] # None
                     /\ Val(rsi[t]).den > 0
                     /\ 0 <= Val(rsi[t]).num
                     /\ Val(rsi[t]).num <= 100 * Val(rsi[t]).den

\* the RSI of a flat window is defined and 0, that of an all-gain window is defined
C19_Witness ==
    /\ call.fn = "compute_rsi"
    /\ call.args = [closes |-> <<0, 0, 0, RSI_POINT>>, period |-> 2]
    /\ call.result # None
    /\ Val(call.result)[2] = None
    /\ Val(call.result)[3] = Some([num |-> 0, den |-> 2 * RSI_EPSILON])
    /\ Val(call.result)[4] # None

\* C20: the series returned by fetch_data_for_period has strictly increasing
\* timestamps, hence no duplicate, whatever the responses of the broker were, and
\* holds only candles marked complete.
C20_SeriesStrictlyIncreasing ==
    (call.fn = "fetch_data_for_period" /\ call.result # None) =>
        LET rows == Val(call.result) IN
        /\ \A k \in 1..(Len(rows) - 1) : rows[k].time < rows[k + 1].time
        /\ \A k \in 1..Len(rows) : rows[k].complete

\* two windows answered with the same candle after a later one, two rows returned
C20_Witness ==
    /\ call.fn = "fetch_data_for_period"
    /\ call.result # None
    /\ Len(Val(call.result)) = 2
    /\ Len(call.local.all_candles) = 2
    /\ Len(call.local.all_candles[1]) = 2
    /\ call.local.all_candles[1][1].time > call.local.all_candles[1][2].time
    /\ call.local.all_candles[2][1].time = call.local.all_candles[1][2].time

\* C21: in every iteration that reaches the drawdown gate or the kill-switch, the
\* starting-of-day equity is the balance read on the current UTC date, also after
\* a reset whose balance read failed.
C21_EquityOfCurrentDate ==
    (pc \in {"fetch", "kill"} \/ ev.type = "drawdown") =>
        /\ start_of_day_equity # None
        /\ equity_date = Some(current_day)

\* C22: with positive quantities and ATR >= 0, a trailing-stop close is requested
\* only at a strictly positive unrealized PnL, so consecutive_losses stays 0 and
\* an order is held back by the daily trade cap only.
C22_LossCounterStaysZero ==
    /\ consecutive_losses = 0
    /\ (ev.type \in {"trail", "fault"} /\ ev.req) =>
            compute_unrealized_pnl(Val(ev.trade), Val(ev.price)) > 0
    /\ (ev.type = "no_order" /\ ev.confirmed \in {"BUY", "SELL"}) =>
            daily_trade_count >= MAX_TRADES_PER_DAY

\* a SELL trade of positive quantity was closed by its trailing stop
C22_Witness ==
    /\ ev.type = "trail"
    /\ ev.closed
    /\ Val(ev.trade).side = "SELL"
    /\ Val(ev.trade).units > 0
    /\ consecutive_losses = 0

\* what an iteration stopped by the session gate does: the step at the top of the
\* loop, and the sleep that ends the iteration
SessionGateFrame ==
    /\ (pc = "top" /\ ev'.type = "session") =>
        /\ \/ ev'.hour < SessionOpenHour
           \/ ev'.hour > SessionCloseHour
           \/ Weekday(current_day') >= FirstWeekendDay
        /\ pc' = "sleep"
        /\ open_trades' = open_trades
        /\ day_state' = day_state
        /\ managed' = {}
        /\ ev' = [NoEv EXCEPT !.type = "session", !.hour = ev'.hour]
    /\ (pc = "top" /\ ev'.type # "session") =>
        /\ ev'.hour >= SessionOpenHour
        /\ ev'.hour <= SessionCloseHour
        /\ Weekday(current_day') < FirstWeekendDay
    /\ (pc = "sleep" /\ ev.type = "session") =>
        /\ pc' = "top"
        /\ open_trades' = open_trades
        /\ day_state' = day_state
        /\ current_day' = current_day

\* C23: an iteration stopped by the session gate (hour < 6 or > 18, or a weekend
\* day) leaves the open trades with their extremes, the counters, the reset date
\* and the starting equity unchanged, and reads no balance, fetches nothing and
\* requests no order and no close; open trades are not managed in it.
C23_SessionGateChangesNothing == [][SessionGateFrame]_vars

\* the gate stops an iteration on a date not yet reset while a trade is open
C23_Witness ==
    /\ pc = "sleep"
    /\ ev.type = "session"
    /\ open_trades # <<>>
    /\ last_date # Some(current_day)
    /\ managed = {}

\* the number of windows of 5000 minutes that cover start..end
WindowsBetween(start, end) ==
    IF end <= start THEN 0 ELSE (end - start + CHUNK_SECONDS - 1) \div CHUNK_SECONDS

\* what one request of fetch_data_for_period does to the loop
WindowProgress ==
    (call.fn = "fetch_data_for_period" /\ call.result = None /\ call'.result = None) =>
        LET l == call.local
            n == call'.local
            w == Val(n.window)
        IN  /\ n.requests = l.requests + 1
            /\ w.from = l.current_start
            /\ w.to - w.from <= CHUNK_SECONDS
            /\ w.to <= call.args.end
            /\ l.window # None =>
                /\ w.from = Val(l.window).to + OFFSET_SECONDS
                /\ w.from > Val(l.window).from
            /\ n.looping <=> (n.answer = "candles" /\ w.to < call.args.end)

\* the requests of a call that was given start >= end, or any start and end
RequestsBounded ==
    call.fn = "fetch_data_for_period" =>
        /\ call.local.requests <= Max2(1, WindowsBetween(call.args.start, call.args.end))
        /\ call.result # None => call.local.requests >= 1

\* C24 as amended: fetch_data_for_period terminates for every start and end and
\* every sequence of responses; each window begins one second after the end of
\* the previous one and spans at most 5000 minutes; the loop stops at the first
\* error, the first response without candles or when a window reaches the end;
\* the requests are at most the number of windows, or one when start >= end.
C24_FetchTerminates ==
    /\ []RequestsBounded
    /\ [][WindowProgress]_vars
    /\ <>(call.result # None)

\* a call over three windows that made all three requests and returned
C24_Witness ==
    /\ call.fn = "fetch_data_for_period"
    /\ call.result # None
    /\ call.local.requests = 3
    /\ call.local.answer = "candles"

\* C24 as stated: the number of requests is bounded by the number of
\* 5000-minute windows between start and end, also when start >= end.
C24_RequestsWithinWindows ==
    call.fn = "fetch_data_for_period" =>
        call.local.requests <= WindowsBetween(call.args.start, call.args.end)

====
